---- MODULE Spec2Model ----
(***************************************************************************)
(* State-machine model of mirror/main.py: the coordinator main(), the two  *)
(* retry loops mirror_image() and mirror_file(), the transform pipeline    *)
(* apply_transforms(), and the tool invocations skopeo copy, oras login    *)
(* and oras push.  The outcome of every external call (tool exit code,     *)
(* HTTP download, gunzip) is an input chosen by the environment.           *)
(*                                                                         *)
(* Strings are sequences of tokens; a command line is a sequence of        *)
(* arguments, each a sequence of tokens.  A file name is the sequence of   *)
(* its dot-separated components.                                           *)
(***************************************************************************)
EXTENDS Integers, Sequences, FiniteSets, TLC

(* ---------------- bounds of the explored inputs ---------------- *)
MaxRetry == 2          \* settings.retry_attempts ranges over 0..MaxRetry
MaxTags == 2           \* a job declares at most MaxTags tags
MaxUnits == 3          \* image tags + file jobs of one configuration

(* ---------------- program constants ---------------- *)
DefaultRetryDelay == 1

Placeholder == "{{GITHUB_REPOSITORY_OWNER}}"

\* The transform registry after module load: only gunzip is registered.
TRANSFORMERS == {"gunzip"}

NoMime == "None"

(* ---------------- pure helpers ---------------- *)
\* a or b, for values where the empty string (or an unset variable) is falsy
Or(a, b) == IF a # "" THEN a ELSE b

\* str.replace(old, new) on a token sequence: every occurrence is replaced
Replace(s, old, new) == [k \in 1..Len(s) |-> IF s[k] = old THEN new ELSE s[k]]

RECURSIVE Join(_, _)
\* sep.join(parts) where every part is one token
Join(parts, sep) ==
    IF parts = <<>> THEN <<>>
    ELSE IF Len(parts) = 1 THEN <<parts[1]>>
    ELSE <<parts[1], sep>> \o Join(Tail(parts), sep)

RECURSIVE JoinArgs(_)
\* ' '.join(args) where every argument is a token sequence
JoinArgs(args) ==
    IF args = <<>> THEN <<>>
    ELSE IF Len(args) = 1 THEN args[1]
    ELSE args[1] \o <<" ">> \o JoinArgs(Tail(args))

\* Path.with_suffix(""): the last dot-separated component is dropped if any
WithSuffixEmpty(path) ==
    IF Len(path) > 1 THEN SubSeq(path, 1, Len(path) - 1) ELSE path

\* source.split("/")[-1]
Filename(source) == source[Len(source)]

(* ---------------- the inputs explored ---------------- *)
TagNames == <<"v1", "v2", "v3", "v4">>
Tags(n) == SubSeq(TagNames, 1, n)

\* a destination naming the owner placeholder `occurrences` times
Destination(occurrences, name) ==
    IF occurrences = 0 THEN <<"ghcr.io/", "mirrors", name>>
    ELSE IF occurrences = 1 THEN <<"ghcr.io/", Placeholder, name>>
    ELSE <<"ghcr.io/", Placeholder, "/", Placeholder, name>>

ImageJob(n) ==
    [source |-> <<"docker.io/library/alpine">>,
     destination |-> Destination(n, "/alpine"),
     tags |-> Tags(n)]

Step(type) == [type |-> type]

FileJob(n, chain, mime) ==
    [source |-> << <<"https:">>, <<>>, <<"example", "com">>, <<"db", "tar", "gz">> >>,
     destination |-> Destination(Len(chain), "/db"),
     tags |-> Tags(n),
     transforms |-> chain,
     mime |-> mime]

Chains ==
    { <<>>, <<Step("gunzip")>>, <<Step("bzip2")>>,
      <<Step("gunzip"), Step("gunzip")>>, <<Step("gunzip"), Step("bzip2")>> }

ImageJobs == { ImageJob(n) : n \in 0..MaxTags }
FileJobs ==
    { FileJob(1, ch, NoMime) : ch \in Chains }
    \cup { FileJob(MaxTags, <<Step("gunzip")>>, "application/custom") }

DockerLists ==
    {<<>>} \cup { <<a>> : a \in ImageJobs } \cup { <<a, b>> : a \in ImageJobs, b \in ImageJobs }
PlainFileJob == FileJob(1, <<>>, NoMime)
FileLists ==
    {<<>>} \cup { <<f>> : f \in FileJobs }
    \cup { <<PlainFileJob, f>> : f \in FileJobs }

RECURSIVE TagCount(_)
TagCount(jobs) == IF jobs = <<>> THEN 0 ELSE Len(jobs[1].tags) + TagCount(Tail(jobs))

Units(d, f) == TagCount(d) + Len(f)

Env(target, owner, actor, user, token) ==
    [GITHUB_TARGET_REPO_OWNER |-> target, GITHUB_REPOSITORY_OWNER |-> owner,
     GITHUB_ACTOR |-> actor, GITHUB_USERNAME |-> user, GITHUB_TOKEN |-> token]

Envs ==
    { Env("acme", "upstream", "octocat", "bot", "s3cret"),
      Env("", "", "octocat", "", "s3cret"),
      Env("acme", "upstream", "octocat", "bot", ""),
      Env("", "", "", "bot", "s3cret"),
      Env("acme", "", "", "", "s3cret"),
      Env("", "", "", "", "") }

(* ---------------- state ---------------- *)
VARIABLES
    env, docker, files, retry_attempts, retry_delay,     \* environment and configuration
    pc, exit_code, fatal,                                \* position in main(), process outcome
    registry_owner, registry_username, registry_password,
    failed_mirrors,
    i, t, j,                                             \* loop indices of main()
    attempt, result,                                     \* retry loop variable, returned value
    step, download_path, current_path, processed_path,   \* locals of mirror_file / apply_transforms
    tmpdir, tmpdirs, tmpfiles,                           \* temporary directories on disk
    cmd, logline,                                        \* last command line built, last "Running:" line
    outcomes, tries, sleeps, succeededAt,                \* history of the run and of the current job
    copyCalls, logins, fetches, pushes, fetchesJob, pushesJob, tmpCreated,
    chainsDone,                                          \* attempts of the job whose fetch and chain completed
    ended,                                               \* how the attempt just made failed, if it did
    applied,                                             \* the transform steps entered in the attempt in hand
    procs                                                \* the tool processes started and not yet exited

config == <<env, docker, files, retry_attempts, retry_delay>>
creds == <<registry_owner, registry_username, registry_password>>
loops == <<i, t, j>>
flocals == <<step, download_path, current_path, processed_path, applied>>
disk == <<tmpdir, tmpdirs, tmpfiles, tmpCreated>>
shown == <<cmd, logline>>
children == <<procs>>
jobhist == <<tries, sleeps, succeededAt, fetchesJob, pushesJob, chainsDone, ended>>
runhist == <<outcomes, copyCalls, logins, fetches, pushes>>

vars == <<config, pc, exit_code, fatal, creds, failed_mirrors, loops, attempt, result,
          flocals, disk, shown, children, jobhist, runhist>>

Running == -1

Init ==
    /\ env \in Envs
    /\ docker \in DockerLists
    /\ files \in FileLists
    /\ Units(docker, files) <= MaxUnits
    /\ retry_attempts \in 0..MaxRetry
    /\ retry_delay = DefaultRetryDelay
    /\ pc = "start"
    /\ exit_code = Running
    /\ fatal = ""
    /\ registry_owner = "" /\ registry_username = "" /\ registry_password = ""
    /\ failed_mirrors = 0
    /\ i = 1 /\ t = 1 /\ j = 1
    /\ attempt = 0 /\ result = FALSE
    /\ step = 0 /\ download_path = <<>> /\ current_path = <<>> /\ processed_path = <<>>
    /\ applied = <<>>
    /\ tmpdir = 0 /\ tmpdirs = {} /\ tmpfiles = {} /\ tmpCreated = 0
    /\ cmd = <<>> /\ logline = <<>>
    /\ procs = {}
    /\ outcomes = <<>> /\ tries = 0 /\ sleeps = 0 /\ succeededAt = 0
    /\ fetchesJob = 0 /\ pushesJob = 0 /\ chainsDone = 0 /\ ended = ""
    /\ copyCalls = 0 /\ logins = <<>> /\ fetches = 0 /\ pushes = 0

(* ---------------- decisions of the code ---------------- *)
\* mutant: the body runs once before the bound is looked at
InRange_AtLeastOnce(a, n) == a <= n \/ a = 1

\* for attempt in range(1, retry_attempts + 1): is `a` still in the range
InRange(a, n) == a <= n

\* if attempt < retry_attempts: time.sleep(retry_delay)
SleepBefore(a, n) == a < n

\* mutant: every returned job is counted as a failure
CountFailure_Always(fm, ok) == fm + 1

\* if not mirror_...(...): failed_mirrors += 1
CountFailure(fm, ok) == IF ok THEN fm ELSE fm + 1

\* sys.exit(code) with the diagnostic printed just before it
Exit(code, diagnostic) ==
    /\ pc' = "done"
    /\ exit_code' = code
    /\ fatal' = diagnostic

(* ---------------- main(): start-up checks ---------------- *)
\* mutant: only the token is required
CredentialsMissing_TokenOnly(owner, username, password) == password = ""

\* if not registry_owner or not registry_username or not registry_password
CredentialsMissing(owner, username, password) ==
    owner = "" \/ username = "" \/ password = ""

CheckConfigFile ==
    /\ pc = "start"
    /\ \E exists \in BOOLEAN :
         IF exists
         THEN pc' = "tools" /\ UNCHANGED <<exit_code, fatal>>
         ELSE Exit(1, "ConfigError")
    /\ UNCHANGED <<config, creds, failed_mirrors, loops, attempt, result,
                   flocals, disk, shown, children, jobhist, runhist>>

RequiredTools ==
    (IF docker # <<>> THEN {"skopeo"} ELSE {}) \cup (IF files # <<>> THEN {"oras"} ELSE {})

VerifyRequiredTools ==
    /\ pc = "tools"
    /\ \E available \in SUBSET RequiredTools :
         IF available = RequiredTools
         THEN pc' = "creds" /\ UNCHANGED <<exit_code, fatal>>
         ELSE Exit(1, "ToolUnavailable")
    /\ UNCHANGED <<config, creds, failed_mirrors, loops, attempt, result,
                   flocals, disk, shown, children, jobhist, runhist>>

ReadCredentials ==
    /\ pc = "creds"
    /\ registry_owner' = Or(env.GITHUB_TARGET_REPO_OWNER,
                            Or(env.GITHUB_REPOSITORY_OWNER, env.GITHUB_ACTOR))
    /\ registry_username' = Or(env.GITHUB_USERNAME, env.GITHUB_ACTOR)
    /\ registry_password' = env.GITHUB_TOKEN
    /\ IF CredentialsMissing(registry_owner', registry_username', registry_password')
       THEN Exit(1, "CredentialError") /\ UNCHANGED <<failed_mirrors, loops>>
       ELSE /\ failed_mirrors' = 0
            /\ i' = 1 /\ t' = 1 /\ j' = 1
            /\ pc' = "docker"
            /\ UNCHANGED <<exit_code, fatal>>
    /\ UNCHANGED <<config, attempt, result, flocals, disk, shown, children, jobhist, runhist>>

(* ---------------- mirror_image(): one tag of one image job ---------------- *)
\* mutant: only the first occurrence is replaced
ResolveDestination_FirstOnly(destination, owner) ==
    [k \in 1..Len(destination) |->
        IF destination[k] = Placeholder
           /\ \A m \in 1..(k - 1) : destination[m] # Placeholder
        THEN owner ELSE destination[k]]

\* destination.replace("{{GITHUB_REPOSITORY_OWNER}}", registry_owner)
ResolveDestination(destination, owner) == Replace(destination, Placeholder, owner)

\* the argument vector of skopeo copy
SkopeoCmd(source, destination, tag, owner, username, password) ==
    << <<"skopeo">>, <<"copy">>, <<"--dest-creds">>,
       <<username, ":", password>>,
       <<"docker://">> \o source \o <<":", tag>>,
       <<"docker://">> \o ResolveDestination(destination, owner) \o <<":", tag>> >>

\* mutant: the whole command line is printed
CopyLogLine_Unredacted(c) == <<"Running: ">> \o JoinArgs(c)

\* f"Running: {' '.join(cmd[:3])} [credentials hidden] {' '.join(cmd[4:])}"
CopyLogLine(c) ==
    <<"Running: ">> \o JoinArgs(SubSeq(c, 1, 3)) \o <<" [credentials hidden] ">>
        \o JoinArgs(SubSeq(c, 5, Len(c)))

ResetJobHistory ==
    /\ tries' = 0 /\ sleeps' = 0 /\ succeededAt' = 0
    /\ fetchesJob' = 0 /\ pushesJob' = 0 /\ chainsDone' = 0 /\ ended' = ""

\* the frame of mirror_image / mirror_file is gone once main() has its result
LocalsGone ==
    /\ attempt' = 0 /\ result' = FALSE
    /\ step' = 0 /\ download_path' = <<>> /\ current_path' = <<>> /\ processed_path' = <<>>
    /\ applied' = <<>>
    /\ tmpdir' = 0 /\ tmpfiles' = {}
    /\ cmd' = <<>> /\ logline' = <<>>
    /\ ResetJobHistory

\* pc after a failed attempt: sleep and go round again, or leave the loop
AfterFailedAttempt(a, n, sleepPc, failedPc) ==
    IF SleepBefore(a, n) THEN sleepPc ELSE failedPc

\* how an attempt ended, from the outcome of the call that ended it
HowEnded(outcome) ==
    IF outcome \in {"raises", "raises_midway"} THEN "raised"
    ELSE IF outcome = "exit_nonzero" THEN "nonzero"
    ELSE ""

\* mutant: an error raised by the fetch or a transform is swallowed and the
\* attempt goes on to the push
OnRaise_PushAnyway(a, n, sleepPc, failedPc) == "f_push"

\* mutant: the error is not caught and leaves the retry loop
OnRaise_Propagates(a, n, sleepPc, failedPc) == "done"

\* except Exception as e: the attempt is over; sleep before the next, if any
OnRaise(a, n, sleepPc, failedPc) == AfterFailedAttempt(a, n, sleepPc, failedPc)

\* mutant: the return code is looked at without waiting for the tool
Waited_NotWaiting(running, tool) == running

\* process.wait(): when it returns the tool has exited
Waited(running, tool) == running \ {tool}

\* mutant: a success does not leave the retry loop
AfterAttempt_KeepsLooping(ok, a, n, returnPc, sleepPc, failedPc) ==
    AfterFailedAttempt(a, n, sleepPc, failedPc)

\* pc after an attempt: a success returns True at once
AfterAttempt(ok, a, n, returnPc, sleepPc, failedPc) ==
    IF ok THEN returnPc ELSE AfterFailedAttempt(a, n, sleepPc, failedPc)

\* mutant: only the first image job is processed before the file phase
DockerExhausted_AfterFirst(idx, jobs) == idx > 1 \/ idx > Len(jobs)

\* for i, mirror in enumerate(docker_mirrors): the loop is over
DockerExhausted(idx, jobs) == idx > Len(jobs)

\* mutant: a failed tag ends the run through the image jobs
NextTag_BreakOnFailure(tagIdx, ok) == IF ok THEN tagIdx + 1 ELSE tagIdx + 1000

\* for tag in tags: the index of the tag after this one
NextTag(tagIdx, ok) == tagIdx + 1

\* mutant: an unregistered type is let through
IsRegistered_Lenient(type) == TRUE

\* if transform_type not in TRANSFORMERS: raise ValueError
IsRegistered(type) == type \in TRANSFORMERS

\* main(): the image loops have a tag left: call mirror_image for it
MirrorImageCall ==
    /\ pc = "docker"
    /\ ~DockerExhausted(i, docker)
    /\ i <= Len(docker)
    /\ t <= Len(docker[i].tags)
    /\ attempt' = 1
    /\ ResetJobHistory
    /\ pc' = IF InRange(1, retry_attempts) THEN "img_attempt" ELSE "img_failed"
    /\ UNCHANGED <<config, exit_code, fatal, creds, failed_mirrors, loops, result,
                   flocals, disk, shown, children, runhist>>

\* main(): the tags of image job i are done: on to the next image job
DockerNextJob ==
    /\ pc = "docker"
    /\ ~DockerExhausted(i, docker)
    /\ i <= Len(docker)
    /\ t > Len(docker[i].tags)
    /\ i' = i + 1
    /\ t' = 1
    /\ UNCHANGED <<config, pc, exit_code, fatal, creds, failed_mirrors, j, attempt, result,
                   flocals, disk, shown, children, jobhist, runhist>>

\* main(): every image job is done: the file phase starts
DockerDone ==
    /\ pc = "docker"
    /\ DockerExhausted(i, docker)
    /\ pc' = "files"
    /\ UNCHANGED <<config, exit_code, fatal, creds, failed_mirrors, loops, attempt, result,
                   flocals, disk, shown, children, jobhist, runhist>>

\* one pass of the retry loop body, up to Popen: build the command, log it,
\* start skopeo.  Popen raises when the tool cannot be started.
ImageAttempt ==
    /\ pc = "img_attempt"
    /\ cmd' = SkopeoCmd(docker[i].source, docker[i].destination, docker[i].tags[t],
                        registry_owner, registry_username, registry_password)
    /\ logline' = CopyLogLine(cmd')
    /\ tries' = tries + 1
    /\ copyCalls' = copyCalls + 1
    /\ \E outcome \in {"started", "raises"} :
         /\ ended' = HowEnded(outcome)
         /\ IF outcome = "started"
            THEN /\ procs' = procs \cup {"skopeo"}
                 /\ pc' = "img_wait"
            ELSE /\ pc' = OnRaise(attempt, retry_attempts, "img_sleep", "img_failed")
                 /\ UNCHANGED procs
    /\ UNCHANGED <<config, exit_code, fatal, creds, failed_mirrors, loops, attempt, result,
                   flocals, disk, sleeps, succeededAt, fetchesJob, pushesJob, chainsDone,
                   outcomes, logins, fetches, pushes>>

\* the output is read to its end, process.wait() returns once skopeo has
\* exited, and only then is process.returncode looked at
ImageWait ==
    /\ pc = "img_wait"
    /\ procs' = Waited(procs, "skopeo")
    /\ \E outcome \in {"exit_zero", "exit_nonzero"} :
         /\ pc' = AfterAttempt(outcome = "exit_zero", attempt, retry_attempts,
                                "img_return", "img_sleep", "img_failed")
         /\ ended' = HowEnded(outcome)
         /\ IF outcome = "exit_zero"
            THEN result' = TRUE /\ succeededAt' = attempt
            ELSE UNCHANGED <<result, succeededAt>>
    /\ UNCHANGED <<config, exit_code, fatal, creds, failed_mirrors, loops, attempt,
                   flocals, disk, shown, tries, sleeps, fetchesJob, pushesJob, chainsDone,
                   runhist>>

\* time.sleep(retry_delay), then the next value of the loop variable
ImageSleep ==
    /\ pc = "img_sleep"
    /\ sleeps' = sleeps + 1
    /\ attempt' = attempt + 1
    /\ ended' = ""
    /\ pc' = "img_attempt"
    /\ UNCHANGED <<config, exit_code, fatal, creds, failed_mirrors, loops, result,
                   flocals, disk, shown, children, tries, succeededAt, fetchesJob, pushesJob,
                   chainsDone, runhist>>

\* the loop is over without a success: "Failed to mirror ...", return False
ImageFailed ==
    /\ pc = "img_failed"
    /\ result' = FALSE
    /\ ended' = ""
    /\ pc' = "img_return"
    /\ UNCHANGED <<config, exit_code, fatal, creds, failed_mirrors, loops, attempt,
                   flocals, disk, shown, children, tries, sleeps, succeededAt,
                   fetchesJob, pushesJob,
                   chainsDone, runhist>>

\* main(): mirror_image returned; count a failure, go to the next tag
ImageReturn ==
    /\ pc = "img_return"
    /\ failed_mirrors' = CountFailure(failed_mirrors, result)
    /\ outcomes' = Append(outcomes, [kind |-> "image", job |-> i, tag |-> t, ok |-> result])
    /\ t' = NextTag(t, result)
    /\ pc' = "docker"
    /\ LocalsGone
    /\ UNCHANGED <<config, exit_code, fatal, creds, i, j,
                   tmpdirs, tmpCreated, children, copyCalls, logins, fetches, pushes>>

(* ---------------- oras login, download, transforms, oras push ---------------- *)
\* the argument vector of oras login
LoginCmd(username, password) ==
    << <<"oras">>, <<"login">>, <<"--username">>, <<username>>,
       <<"--password">>, <<password>>, <<"ghcr.io">> >>

\* str(path) of a file of the temporary directory
PathStr(path) == <<"<tmpdir>/">> \o Join(path, ".")

\* mutant: only the first tag is put in the reference
PushDestFull_FirstTag(destination, tags, owner) ==
    ResolveDestination(destination, owner) \o <<":">> \o SubSeq(tags, 1, 1)

\* f"{destination}:{tags_str}" with tags_str = ",".join(tags)
PushDestFull(destination, tags, owner) ==
    ResolveDestination(destination, owner) \o <<":">> \o Join(tags, ",")

\* the argument vector of oras push
PushCmd(file_path, destination, tags, owner, mime_type) ==
    << <<"oras">>, <<"push">>, <<"--disable-path-validation">>,
       PushDestFull(destination, tags, owner),
       PathStr(file_path) >>
    \o (IF mime_type # NoMime THEN << <<"--artifact-type">>, <<mime_type>> >> ELSE <<>>)

\* mutant: every step is given the downloaded file
StepInput_AlwaysTheDownload(file_path, current) == file_path

\* current_path = transformer(current_path): the input of the step in hand
StepInput(file_path, current) == current

\* mutant: the directory is left behind
RemoveTree_Leaks(dirs, d) == dirs

\* with tempfile.TemporaryDirectory(): leaving the block removes the directory
RemoveTree(dirs, d) == dirs \ {d}

\* mutant: a retry goes straight to the push of what is already there
RetryEntry_ResumeAtPush == "f_push"

\* where a further pass of the retry loop of mirror_file starts: at the download
RetryEntry == "f_download"

(* ---------------- main(): the file phase ---------------- *)
\* main(): no file job configured: straight to the summary
NoFiles ==
    /\ pc = "files"
    /\ files = <<>>
    /\ pc' = "summary"
    /\ UNCHANGED <<config, exit_code, fatal, creds, failed_mirrors, loops, attempt, result,
                   flocals, disk, shown, children, jobhist, runhist>>

\* mutant: a failed login is ignored
AfterLogin_Ignored(ok) == "file_loop"

\* pc after oras_login returned: the file loop, or sys.exit(1)
AfterLogin(ok) == IF ok THEN "file_loop" ELSE "done"

\* main(): file jobs are configured: oras_login() starts oras login.
\* Popen is not guarded in oras_login: an error raised there ends the process
\* with a traceback and exit code 1.
OrasLogin ==
    /\ pc = "files"
    /\ files # <<>>
    /\ cmd' = LoginCmd(registry_username, registry_password)
    /\ logline' = <<"Running oras login">>
    /\ \E outcome \in {"started", "raises"} :
         IF outcome = "started"
         THEN /\ procs' = procs \cup {"oras"}
              /\ pc' = "login_wait"
              /\ UNCHANGED <<exit_code, fatal, logins>>
         ELSE /\ logins' = Append(logins, outcome)
              /\ Exit(1, "Traceback")
              /\ UNCHANGED procs
    /\ UNCHANGED <<config, creds, failed_mirrors, loops, attempt, result,
                   flocals, disk, jobhist, outcomes, copyCalls, fetches, pushes>>

\* oras_login(): process.wait() has returned; main() goes on to the file
\* loop, or prints the diagnostic and calls sys.exit(1)
LoginWait ==
    /\ pc = "login_wait"
    /\ procs' = Waited(procs, "oras")
    /\ \E outcome \in {"exit_zero", "exit_nonzero"} :
         /\ logins' = Append(logins, outcome)
         /\ pc' = AfterLogin(outcome = "exit_zero")
         /\ IF pc' = "done"
            THEN /\ exit_code' = 1
                 /\ fatal' = "AuthError"
            ELSE UNCHANGED <<exit_code, fatal>>
    /\ j' = 1
    /\ UNCHANGED <<config, creds, failed_mirrors, i, t, attempt, result,
                   flocals, disk, shown, jobhist, outcomes, copyCalls, fetches, pushes>>

\* main(): a file job is left: call mirror_file, which creates the temporary directory
MirrorFileCall ==
    /\ pc = "file_loop"
    /\ j <= Len(files)
    /\ tmpCreated' = tmpCreated + 1
    /\ tmpdir' = tmpCreated'
    /\ tmpdirs' = tmpdirs \cup {tmpdir'}
    /\ tmpfiles' = {}
    /\ download_path' = Filename(files[j].source)
    /\ attempt' = 1
    /\ ResetJobHistory
    /\ pc' = IF InRange(1, retry_attempts) THEN "f_download" ELSE "file_failed"
    /\ UNCHANGED <<config, exit_code, fatal, creds, failed_mirrors, loops, result,
                   step, current_path, processed_path, applied, shown, children, runhist>>

\* main(): every file job is done
FilesDone ==
    /\ pc = "file_loop"
    /\ j > Len(files)
    /\ pc' = "summary"
    /\ UNCHANGED <<config, exit_code, fatal, creds, failed_mirrors, loops, attempt, result,
                   flocals, disk, shown, children, jobhist, runhist>>

\* download_file(source, download_path); an error raised ends the attempt.
\* An error raised while the body is streamed leaves a partial file behind.
DownloadFile ==
    /\ pc = "f_download"
    /\ tries' = tries + 1
    /\ fetches' = fetches + 1
    /\ fetchesJob' = fetchesJob + 1
    /\ \E outcome \in {"written", "raises", "raises_midway"} :
         /\ ended' = HowEnded(outcome)
         /\ applied' = <<>>
         /\ IF outcome = "written"
            THEN /\ tmpfiles' = tmpfiles \cup {download_path}
                 /\ processed_path' = download_path
                 /\ IF files[j].transforms # <<>>
                    THEN /\ pc' = "f_transform"
                         /\ step' = 1
                         /\ current_path' = download_path
                         /\ UNCHANGED chainsDone
                    ELSE /\ pc' = "f_push"
                         /\ chainsDone' = chainsDone + 1
                         /\ UNCHANGED <<step, current_path>>
            ELSE /\ pc' = OnRaise(attempt, retry_attempts, "f_sleep", "file_failed")
                 /\ tmpfiles' = IF outcome = "raises_midway"
                                THEN tmpfiles \cup {download_path} ELSE tmpfiles
                 /\ UNCHANGED <<step, current_path, processed_path, chainsDone>>
    /\ UNCHANGED <<config, exit_code, fatal, creds, failed_mirrors, loops, attempt, result,
                   download_path, tmpdir, tmpdirs, tmpCreated, shown, children,
                   sleeps, succeededAt, pushesJob, outcomes, copyCalls, logins, pushes>>

\* apply_transforms(): one pass of its loop.  An unregistered type raises
\* ValueError; gunzip writes its output next to the input and may raise.
ApplyTransform ==
    /\ pc = "f_transform"
    /\ LET type == files[j].transforms[step].type
           input_path == StepInput(download_path, current_path)
           output_path == WithSuffixEmpty(input_path)
       IN IF ~IsRegistered(type)
          THEN /\ pc' = OnRaise(attempt, retry_attempts, "f_sleep", "file_failed")
               /\ ended' = "raised"
               /\ applied' = Append(applied, [type |-> type, input |-> input_path,
                                              output |-> <<>>, result |-> "UnknownTransform"])
               /\ UNCHANGED <<tmpfiles, step, current_path, processed_path, chainsDone>>
          ELSE \E outcome \in {"returns", "raises"} :
                 /\ tmpfiles' = tmpfiles \cup {output_path}
                 /\ ended' = HowEnded(outcome)
                 /\ applied' = Append(applied, [type |-> type, input |-> input_path,
                                                output |-> output_path,
                                                result |-> IF outcome = "returns"
                                                           THEN "returned" ELSE "TransformError"])
                 /\ IF outcome = "returns"
                    THEN /\ current_path' = output_path
                         /\ IF step < Len(files[j].transforms)
                            THEN /\ step' = step + 1
                                 /\ UNCHANGED <<pc, processed_path, chainsDone>>
                            ELSE /\ processed_path' = output_path
                                 /\ pc' = "f_push"
                                 /\ chainsDone' = chainsDone + 1
                                 /\ UNCHANGED step
                    ELSE /\ pc' = OnRaise(attempt, retry_attempts, "f_sleep", "file_failed")
                         /\ UNCHANGED <<step, current_path, processed_path, chainsDone>>
    /\ UNCHANGED <<config, exit_code, fatal, creds, failed_mirrors, loops, attempt, result,
                   download_path, tmpdir, tmpdirs, tmpCreated, shown, children,
                   tries, sleeps, succeededAt, fetchesJob, pushesJob, runhist>>

\* push_file_to_registry(), up to Popen: build the command, log it, start
\* oras push.  An error launching the tool is caught there and gives False.
PushFile ==
    /\ pc = "f_push"
    /\ cmd' = PushCmd(processed_path, files[j].destination, files[j].tags,
                      registry_owner, files[j].mime)
    /\ logline' = <<"Running: ">> \o JoinArgs(cmd')
    /\ pushes' = pushes + 1
    /\ pushesJob' = pushesJob + 1
    /\ \E outcome \in {"started", "raises"} :
         /\ ended' = HowEnded(outcome)
         /\ IF outcome = "started"
            THEN /\ procs' = procs \cup {"oras"}
                 /\ pc' = "f_push_wait"
            ELSE /\ pc' = AfterAttempt(FALSE, attempt, retry_attempts,
                                       "file_return", "f_sleep", "file_failed")
                 /\ UNCHANGED procs
    /\ UNCHANGED <<config, exit_code, fatal, creds, failed_mirrors, loops, attempt, result,
                   flocals, disk, tries, sleeps, succeededAt, fetchesJob, chainsDone,
                   outcomes, copyCalls, logins, fetches>>

\* push_file_to_registry(): process.wait() has returned; True iff oras
\* exited 0.  True makes mirror_file return, which leaves the with block.
PushWait ==
    /\ pc = "f_push_wait"
    /\ procs' = Waited(procs, "oras")
    /\ \E outcome \in {"exit_zero", "exit_nonzero"} :
         /\ pc' = AfterAttempt(outcome = "exit_zero", attempt, retry_attempts,
                                "file_return", "f_sleep", "file_failed")
         /\ ended' = HowEnded(outcome)
         /\ IF outcome = "exit_zero"
            THEN /\ result' = TRUE
                 /\ succeededAt' = attempt
                 /\ tmpdirs' = RemoveTree(tmpdirs, tmpdir)
                 /\ tmpfiles' = {}
            ELSE UNCHANGED <<result, succeededAt, tmpdirs, tmpfiles>>
    /\ UNCHANGED <<config, exit_code, fatal, creds, failed_mirrors, loops, attempt,
                   flocals, tmpdir, tmpCreated, shown, tries, sleeps, fetchesJob, pushesJob,
                   chainsDone, runhist>>

\* time.sleep(retry_delay), then the next pass of the loop
FileSleep ==
    /\ pc = "f_sleep"
    /\ sleeps' = sleeps + 1
    /\ attempt' = attempt + 1
    /\ ended' = ""
    /\ pc' = RetryEntry
    /\ UNCHANGED <<config, exit_code, fatal, creds, failed_mirrors, loops, result,
                   flocals, disk, shown, children, tries, succeededAt, fetchesJob, pushesJob,
                   chainsDone, runhist>>

\* the loop is over without a success: return False, leaving the with block
FileFailed ==
    /\ pc = "file_failed"
    /\ result' = FALSE
    /\ tmpdirs' = RemoveTree(tmpdirs, tmpdir)
    /\ tmpfiles' = {}
    /\ ended' = ""
    /\ pc' = "file_return"
    /\ UNCHANGED <<config, exit_code, fatal, creds, failed_mirrors, loops, attempt,
                   flocals, tmpdir, tmpCreated, shown, children, tries, sleeps, succeededAt,
                   fetchesJob, pushesJob, chainsDone, runhist>>

\* main(): mirror_file returned; count a failure, go to the next file job
FileReturn ==
    /\ pc = "file_return"
    /\ failed_mirrors' = CountFailure(failed_mirrors, result)
    /\ outcomes' = Append(outcomes, [kind |-> "file", job |-> j, tag |-> 0, ok |-> result])
    /\ j' = j + 1
    /\ pc' = "file_loop"
    /\ LocalsGone
    /\ UNCHANGED <<config, exit_code, fatal, creds, i, t,
                   tmpdirs, tmpCreated, children, copyCalls, logins, fetches, pushes>>

\* mutant: the summary never exits nonzero
SummaryCode_AlwaysZero(fm) == 0

\* the exit code of main() given the failure count
SummaryCode(fm) == IF fm > 0 THEN 1 ELSE 0

\* main(): "Failed mirrors: n" and sys.exit(1), or the success message
Summary ==
    /\ pc = "summary"
    /\ pc' = "done"
    /\ exit_code' = SummaryCode(failed_mirrors)
    /\ UNCHANGED <<config, fatal, creds, failed_mirrors, loops, attempt, result,
                   flocals, disk, shown, children, jobhist, runhist>>

Next ==
    \/ CheckConfigFile
    \/ VerifyRequiredTools
    \/ ReadCredentials
    \/ MirrorImageCall
    \/ DockerNextJob
    \/ DockerDone
    \/ ImageAttempt
    \/ ImageWait
    \/ ImageSleep
    \/ ImageFailed
    \/ ImageReturn
    \/ NoFiles
    \/ OrasLogin
    \/ LoginWait
    \/ MirrorFileCall
    \/ FilesDone
    \/ DownloadFile
    \/ ApplyTransform
    \/ PushFile
    \/ PushWait
    \/ FileSleep
    \/ FileFailed
    \/ FileReturn
    \/ Summary

Spec == Init /\ [][Next]_vars

\* the runs of one environment with every credential and one without the token
FairInit ==
    /\ Init
    /\ env \in { Env("acme", "upstream", "octocat", "bot", "s3cret"),
                  Env("acme", "upstream", "octocat", "bot", "") }

\* every call the program makes returns (tool, download, transform, sleep),
\* so the program always takes its next step
FairSpec == FairInit /\ [][Next]_vars /\ WF_vars(Next)

(* ---------------- vocabulary of the properties ---------------- *)
InImageJob == pc \in {"img_attempt", "img_wait", "img_sleep", "img_failed", "img_return"}
FileAttemptPcs ==
    {"f_download", "f_transform", "f_push", "f_push_wait", "f_sleep", "file_failed"}
InFileJob == pc \in FileAttemptPcs \cup {"file_return"}
Returned == pc \in {"img_return", "file_return"}

RECURSIVE UnitsOf(_, _)
\* the <<job, tag>> index pairs of the image jobs from job k on, in configuration order
UnitsOf(jobs, k) ==
    IF k > Len(jobs) THEN <<>>
    ELSE [n \in 1..Len(jobs[k].tags) |-> <<k, n>>] \o UnitsOf(jobs, k + 1)

ImageUnits == UnitsOf(docker, 1)

Failed == { k \in DOMAIN outcomes : ~outcomes[k].ok }
FileOutcomes == { k \in DOMAIN outcomes : outcomes[k].kind = "file" }
ImageOutcomes == { k \in DOMAIN outcomes : outcomes[k].kind = "image" }

AllEndedSuccess ==
    /\ Len(outcomes) = Units(docker, files)
    /\ Failed = {}

LoginFailed == \E k \in DOMAIN logins : logins[k] # "exit_zero"

HasUnknown(job) == \E k \in DOMAIN job.transforms : job.transforms[k].type \notin {"gunzip"}

(* ---------------- C1 ---------------- *)
\* C1: when the operation of a tag or file job first succeeds on attempt k
\* (1 <= k <= retry_attempts), exactly k attempts were made and none follows,
\* exactly k-1 delays were slept, and the job has returned True.
C1_FirstSuccessEndsTheJob ==
    succeededAt >= 1 =>
        /\ succeededAt <= retry_attempts
        /\ tries = succeededAt
        /\ sleeps = succeededAt - 1
        /\ Returned
        /\ result = TRUE

C1_Witness ==
    /\ pc = "file_return"
    /\ succeededAt = 2
    /\ sleeps = 1
    /\ result

(* ---------------- C2 ---------------- *)
\* C2: a job none of whose attempts succeeded has made exactly retry_attempts
\* attempts and returns False; failed_mirrors is the number of exhausted image
\* tags and file jobs (one per file job, whatever its tags); and one image
\* job with tags [v1, v2], retry_attempts 2, v1 exhausted and v2 successful
\* ends with failure count 1 and a nonzero exit code.
C2_ExhaustedCountsOnce ==
    /\ (Returned /\ succeededAt = 0) => (tries = retry_attempts /\ result = FALSE)
    /\ (Returned /\ ~result) => (tries = retry_attempts /\ succeededAt = 0)
    /\ pc \notin {"start", "tools", "creds"} => failed_mirrors = Cardinality(Failed)
    /\ \A k \in FileOutcomes :
         \A m \in FileOutcomes : outcomes[k].job = outcomes[m].job => k = m
    /\ ( /\ docker = <<ImageJob(2)>> /\ files = <<>> /\ retry_attempts = 2
         /\ pc = "done" /\ Len(outcomes) = 2
         /\ ~outcomes[1].ok /\ outcomes[2].ok )
       => (failed_mirrors = 1 /\ exit_code # 0)

C2_Witness ==
    /\ docker = <<ImageJob(2)>> /\ files = <<>> /\ retry_attempts = 2
    /\ pc = "done" /\ Len(outcomes) = 2
    /\ ~outcomes[1].ok /\ outcomes[2].ok
    /\ failed_mirrors = 1

(* ---------------- C3 ---------------- *)
StartupPassed == fatal \notin {"ConfigError", "ToolUnavailable", "CredentialError"}

\* C3 as stated: the exit code is 0 iff every image tag and every file job
\* ended in Success (failure count zero) and the login, when performed,
\* succeeded.
C3_ExitZeroIffAllSucceeded ==
    pc = "done" =>
        (exit_code = 0 <=> (AllEndedSuccess /\ failed_mirrors = 0 /\ ~LoginFailed))

\* C3 amended: in a run that passes the start-up checks (configuration file,
\* required tools, credentials) the exit code is 0 iff every image tag and
\* every file job ended in Success (failure count zero) and the login, when
\* performed, succeeded, and it is nonzero if a tag or job exhausted its
\* retries or the login failed; a run stopped by a start-up check exits
\* nonzero with failure count zero.
C3_ExitCode ==
    pc = "done" =>
        /\ exit_code \in {0, 1}
        /\ StartupPassed =>
             (exit_code = 0 <=> (AllEndedSuccess /\ failed_mirrors = 0 /\ ~LoginFailed))
        /\ (Failed # {} \/ LoginFailed) => exit_code # 0
        /\ ~StartupPassed => (exit_code # 0 /\ failed_mirrors = 0 /\ outcomes = <<>>)

C3_Witness ==
    /\ pc = "done"
    /\ exit_code = 0
    /\ Len(logins) = 1
    /\ ImageOutcomes # {}
    /\ FileOutcomes # {}

(* ---------------- C4 ---------------- *)
\* C4 as stated: a file job whose chain names an unregistered transform
\* type fails before any download_file or push_file_to_registry call is made
\* for that job.
C4_UnknownTypeFailsBeforeFetch ==
    (InFileJob /\ HasUnknown(files[j])) => (fetchesJob = 0 /\ pushesJob = 0)

\* C4 amended: a file job whose chain names an unregistered transform type
\* fails without any push call for that job, but not before the fetch: every
\* one of its retry_attempts attempts starts with a download_file call, and
\* the job returns False.
C4_UnknownTypeNeverPushes ==
    (InFileJob /\ HasUnknown(files[j])) =>
        /\ pushesJob = 0
        /\ succeededAt = 0
        /\ fetchesJob = tries
        /\ pc = "file_return" => (result = FALSE /\ fetchesJob = retry_attempts)

C4_Witness ==
    /\ pc = "file_return"
    /\ HasUnknown(files[j])
    /\ fetchesJob = 2
    /\ result = FALSE

(* ---------------- C5 ---------------- *)
\* C5: with a non-empty file job list oras_login is invoked exactly once, before
\* any fetch or push; a failed login is not retried, ends the process with a
\* nonzero exit code, and no file job is processed (no temporary directory,
\* fetch or push, no file outcome).
C5_LoginOnceAndFatal ==
    /\ Len(logins) <= 1
    /\ (fetches > 0 \/ pushes > 0 \/ tmpCreated > 0 \/ InFileJob \/ pc = "file_loop")
         => (Len(logins) = 1 /\ ~LoginFailed)
    /\ (files # <<>> /\ (pc = "summary" \/ (pc = "done" /\ fatal = "")))
         => Len(logins) = 1
    /\ LoginFailed =>
         /\ pc = "done"
         /\ exit_code # 0 /\ exit_code # Running
         /\ fetches = 0 /\ pushes = 0 /\ tmpCreated = 0
         /\ FileOutcomes = {}

C5_Witness ==
    /\ logins = <<"exit_nonzero">>
    /\ pc = "done"
    /\ Len(files) = 2
    /\ ImageOutcomes # {}

(* ---------------- C6 ---------------- *)
\* C6: every image tag has reached Success or Exhausted before the login and
\* before any file job starts; tags end in configuration order (job by job,
\* tag by tag); and once the file phase has begun no skopeo copy is invoked.
C6_ImagesBeforeFiles ==
    /\ \A k \in DOMAIN outcomes :
         IF k <= Len(ImageUnits)
         THEN /\ outcomes[k].kind = "image"
              /\ <<outcomes[k].job, outcomes[k].tag>> = ImageUnits[k]
         ELSE outcomes[k].kind = "file"
    /\ (logins # <<>> \/ fetches > 0 \/ pushes > 0 \/ tmpCreated > 0
            \/ InFileJob \/ pc \in {"file_loop", "summary"})
         => (Len(outcomes) >= Len(ImageUnits) /\ ~InImageJob)
    /\ InImageJob =>
         /\ Len(outcomes) < Len(ImageUnits)
         /\ <<i, t>> = ImageUnits[Len(outcomes) + 1]
    /\ (cmd # <<>> /\ cmd[1] = <<"skopeo">>) =>
         (InImageJob /\ logins = <<>> /\ fetches = 0 /\ pushes = 0 /\ tmpCreated = 0)
    /\ copyCalls > 0 => ImageUnits # <<>>

C6_Witness ==
    /\ pc = "f_download"
    /\ Len(docker) = 2
    /\ Len(ImageUnits) = 2
    /\ Failed # {}

(* ---------------- C7 ---------------- *)
\* C7: image tags are retried independently: the tag in hand is always the
\* next one in configuration order whatever the earlier outcomes, it starts
\* with loop variable 1 and no attempt made, it may use all retry_attempts
\* attempts (an exhausted tag has made exactly that many), and when the image
\* phase is over every tag of every image job has an outcome.
C7_TagsIndependent ==
    /\ InImageJob =>
         /\ Len(outcomes) < Len(ImageUnits)
         /\ <<i, t>> = ImageUnits[Len(outcomes) + 1]
         /\ tries <= retry_attempts
         /\ pc = "img_attempt" => (attempt = tries + 1 /\ attempt <= retry_attempts)
         /\ (pc = "img_attempt" /\ sleeps = 0) => attempt = 1
         /\ (pc = "img_return" /\ ~result) => tries = retry_attempts
    /\ (pc \in {"files", "file_loop", "summary"} \/ InFileJob \/ (pc = "done" /\ fatal = ""))
         => Cardinality(ImageOutcomes) = Len(ImageUnits)

C7_Witness ==
    /\ pc = "img_return"
    /\ retry_attempts = 2
    /\ tries = 2
    /\ ~result
    /\ Len(outcomes) = 2
    /\ ~outcomes[1].ok
    /\ outcomes[2].ok
    /\ i = 2

(* ---------------- C8 ---------------- *)
\* C8: every push of a file job with tags t1..tn names all n tags, joined by
\* commas after the colon of one destination reference; at most one push is
\* made per attempt; and the job has one outcome, a single boolean.
C8_OnePushAllTags ==
    /\ (InFileJob /\ pushesJob > 0) =>
         LET tags == files[j].tags
             n == Len(tags)
             ref == cmd[4]
             d == Len(files[j].destination)
         IN /\ cmd[1] = <<"oras">> /\ cmd[2] = <<"push">>
            /\ Len(ref) = d + 2 * n
            /\ ref[d + 1] = ":"
            /\ \A k \in 1..n : ref[d + 2 * k] = tags[k]
            /\ \A k \in 1..(n - 1) : ref[d + 2 * k + 1] = ","
            /\ \A k \in 1..d : ref[k] \notin {":", ","}
    /\ InFileJob => (pushesJob <= tries /\ pushesJob <= attempt)
    /\ \A k \in FileOutcomes :
         /\ outcomes[k].ok \in BOOLEAN
         /\ \A m \in FileOutcomes : outcomes[k].job = outcomes[m].job => k = m

C8_Witness ==
    /\ pc = "file_return"
    /\ Len(files[j].tags) >= 2
    /\ pushesJob = 2
    /\ result

(* ---------------- C9 ---------------- *)
\* C9: the temporary directory of a file job exists exactly while mirror_file
\* is running: one directory per job, the same for all its attempts, gone when
\* mirror_file has returned whatever the outcome; never two at a time.
C9_TmpdirScoped ==
    /\ Cardinality(tmpdirs) <= 1
    /\ pc \in FileAttemptPcs =>
         /\ tmpdirs = {tmpdir}
         /\ tmpdir = tmpCreated
         /\ tmpCreated = j
    /\ pc \notin FileAttemptPcs => tmpdirs = {}
    /\ pc = "file_return" => tmpCreated = j
    /\ tmpCreated <= Len(files)

C9_Witness ==
    /\ pc = "file_return"
    /\ j = 2
    /\ HasUnknown(files[j])
    /\ Len(files[j].transforms) = 2
    /\ tries = 2
    /\ ~result

(* ---------------- C10 ---------------- *)
Max(a, b) == IF a >= b THEN a ELSE b

\* C10: every attempt of a file job starts again with the fetch: when the
\* transform or push stage is reached the fetch of this very attempt has been
\* made, the path in hand is the downloaded file taken through the steps
\* applied so far in this attempt, and the push comes after the whole chain.
C10_EveryAttemptFromScratch ==
    /\ pc \in {"f_download", "f_transform", "f_push", "f_push_wait", "f_sleep"} =>
         /\ attempt >= 1 /\ attempt <= retry_attempts
         /\ fetchesJob = IF pc = "f_download" THEN attempt - 1 ELSE attempt
         /\ tries = fetchesJob
         /\ pushesJob <= IF pc \in {"f_sleep", "f_push_wait"} THEN attempt ELSE attempt - 1
    /\ pc = "f_transform" =>
         /\ step \in 1..Len(files[j].transforms)
         /\ Len(current_path) = Max(1, Len(download_path) - (step - 1))
         /\ \A k \in 1..Len(current_path) : current_path[k] = download_path[k]
         /\ download_path \in tmpfiles
         /\ current_path \in tmpfiles
    /\ pc = "f_push" =>
         /\ Len(processed_path) = Max(1, Len(download_path) - Len(files[j].transforms))
         /\ \A k \in 1..Len(processed_path) : processed_path[k] = download_path[k]
         /\ processed_path \in tmpfiles

C10_Witness ==
    /\ pc = "f_push"
    /\ attempt = 2
    /\ pushesJob = 1
    /\ Len(files[j].transforms) = 2

(* ---------------- C11 ---------------- *)
\* C11: in a file job a push is made only in an attempt whose fetch and whole
\* transform chain completed without raising: the pushes of the job never
\* outnumber those attempts, the push stage is entered only with such an
\* attempt just completed, a chain with an unregistered type never completes,
\* and the file named by a push is the download taken through every step of
\* the chain (the output of the last transform).
C11_PushOnlyAfterWholeChain ==
    InFileJob =>
        /\ pushesJob <= chainsDone
        /\ chainsDone <= fetchesJob
        /\ chainsDone = IF pc = "f_push" THEN pushesJob + 1 ELSE pushesJob
        /\ pc = "f_push" => chainsDone <= attempt
        /\ HasUnknown(files[j]) => chainsDone = 0
        /\ pushesJob > 0 =>
             LET m == Max(1, Len(download_path) - Len(files[j].transforms))
                 arg == cmd[5]
             IN /\ cmd[2] = <<"push">>
                /\ Len(arg) = 2 * m
                /\ arg[1] = "<tmpdir>/"
                /\ \A k \in 1..m : arg[2 * k] = download_path[k]
                /\ \A k \in 1..(m - 1) : arg[2 * k + 1] = "."

C11_Witness ==
    /\ pc = "file_failed"
    /\ Len(files[j].transforms) = 2
    /\ ~HasUnknown(files[j])
    /\ attempt = 2
    /\ fetchesJob = 2
    /\ chainsDone = 1
    /\ pushesJob = 1

(* ---------------- C12 ---------------- *)
SleepPcs == {"img_sleep", "f_sleep"}
ExhaustedPcs == {"img_failed", "file_failed"}

\* C12: an attempt ended by a raised error (fetch, unknown transform,
\* transform, tool launch) is one failed attempt like an attempt ended by a
\* nonzero exit code: it has consumed one attempt, the loop either sleeps for
\* the next attempt or is exhausted, by the same test whichever way the
\* attempt ended, and nothing reaches main(): while a job is in hand the
\* process is running with no fatal diagnostic, a traceback only ever comes
\* from the login, and a run that ends without a fatal diagnostic has a
\* boolean outcome for every tag and file job.
C12_ErrorsAreFailedAttempts ==
    /\ ended \in {"", "nonzero", "raised"}
    /\ ended # "" =>
         /\ pc \in SleepPcs \cup ExhaustedPcs
         /\ tries = attempt
         /\ tries <= retry_attempts
         /\ pc \in SleepPcs <=> attempt < retry_attempts
         /\ pc \in ExhaustedPcs <=> attempt = retry_attempts
         /\ succeededAt = 0
    /\ (InImageJob \/ InFileJob) => (exit_code = Running /\ fatal = "")
    /\ fatal = "Traceback" => logins = <<"raises">>
    /\ pc = "done" => exit_code # Running
    /\ (pc = "done" /\ fatal = "") =>
         /\ Len(outcomes) = Units(docker, files)
         /\ \A k \in DOMAIN outcomes : outcomes[k].ok \in BOOLEAN

C12_Witness ==
    /\ pc = "file_failed"
    /\ ended = "raised"
    /\ tries = 2
    /\ pushesJob = 1
    /\ Failed # {}
    /\ j = 2

(* ---------------- C13 ---------------- *)
\* the environment leaves the owner, the username or the token unset
OwnerUnset ==
    /\ env.GITHUB_TARGET_REPO_OWNER = ""
    /\ env.GITHUB_REPOSITORY_OWNER = ""
    /\ env.GITHUB_ACTOR = ""
UsernameUnset == env.GITHUB_USERNAME = "" /\ env.GITHUB_ACTOR = ""
TokenUnset == env.GITHUB_TOKEN = ""

\* C13: when the owner, the username or the token is missing the run ends
\* with a nonzero exit code before any job is processed: no skopeo copy, no
\* login, no fetch, no transform, no push, no temporary directory and no job
\* outcome; the summary is never reached and the failure count stays zero,
\* the exit coming with the credential diagnostic (or that of an earlier
\* start-up check).
C13_MissingCredentialHalts ==
    (OwnerUnset \/ UsernameUnset \/ TokenUnset) =>
        /\ pc \in {"start", "tools", "creds", "done"}
        /\ copyCalls = 0 /\ logins = <<>> /\ fetches = 0 /\ pushes = 0
        /\ tmpCreated = 0 /\ tmpfiles = {} /\ chainsDone = 0 /\ step = 0
        /\ cmd = <<>> /\ outcomes = <<>>
        /\ failed_mirrors = 0
        /\ pc = "done" =>
             /\ exit_code = 1
             /\ fatal \in {"ConfigError", "ToolUnavailable", "CredentialError"}
        /\ pc = "creds" => fatal = ""

C13_Witness ==
    /\ pc = "done"
    /\ fatal = "CredentialError"
    /\ exit_code = 1
    /\ UsernameUnset /\ ~OwnerUnset /\ ~TokenUnset
    /\ docker # <<>> /\ files # <<>>

(* ---------------- C14 ---------------- *)
\* a skopeo copy has been launched for the tag in hand
CopyLaunched == InImageJob /\ tries >= 1

\* C14: the "Running:" line of every skopeo copy attempt is made of the
\* tool name, the sub-command, the option name, the redaction marker and the
\* two image references only: it is a function of the job, the tag and the
\* owner, so it is the same whatever the password, and no part of it is the
\* token; the command executed has six arguments, the credentials being the
\* single argument username:password right after --dest-creds, and no other
\* argument holds the token.
C14_CopyLogRedacted ==
    CopyLaunched =>
        LET job == docker[i]
            tag == job.tags[t]
            dest == [k \in 1..Len(job.destination) |->
                        IF job.destination[k] = "{{GITHUB_REPOSITORY_OWNER}}"
                        THEN registry_owner ELSE job.destination[k]]
        IN /\ logline = <<"Running: ", "skopeo", " ", "copy", " ", "--dest-creds",
                           " [credentials hidden] ", "docker://">>
                         \o job.source \o <<":", tag, " ", "docker://">>
                         \o dest \o <<":", tag>>
           /\ \A k \in DOMAIN logline : logline[k] # registry_password
           /\ Len(cmd) = 6
           /\ cmd[3] = <<"--dest-creds">>
           /\ cmd[4] = <<registry_username, ":", registry_password>>
           /\ \A a \in DOMAIN cmd : a # 4 =>
                  \A k \in DOMAIN cmd[a] : cmd[a][k] # registry_password

C14_Witness ==
    /\ pc = "img_sleep"
    /\ tries = 1
    /\ registry_password = "s3cret"
    /\ registry_username = "octocat"
    /\ t = 2

(* ---------------- C15 ---------------- *)
\* the owner main() settles on: the first of the three variables that is set
EffectiveOwner ==
    IF env.GITHUB_TARGET_REPO_OWNER # "" THEN env.GITHUB_TARGET_REPO_OWNER
    ELSE IF env.GITHUB_REPOSITORY_OWNER # "" THEN env.GITHUB_REPOSITORY_OWNER
    ELSE env.GITHUB_ACTOR

\* `used` is `destination` with the owner in place of every placeholder
Templated(destination, used) ==
    /\ Len(used) = Len(destination)
    /\ \A k \in DOMAIN destination :
         /\ used[k] # "{{GITHUB_REPOSITORY_OWNER}}"
         /\ destination[k] = "{{GITHUB_REPOSITORY_OWNER}}" => used[k] = EffectiveOwner
         /\ destination[k] # "{{GITHUB_REPOSITORY_OWNER}}" => used[k] = destination[k]

\* C15: the destination handed to skopeo copy (for every tag, on every
\* attempt) and to oras push (on every attempt) is the configured destination
\* with every occurrence of {{GITHUB_REPOSITORY_OWNER}} replaced by the
\* effective owner and nothing else changed; ghcr.io/{{GITHUB_REPOSITORY_OWNER}}/alpine
\* with owner acme is used as ghcr.io/acme/alpine.
C15_DestinationTemplated ==
    /\ CopyLaunched =>
         LET d == Len(docker[i].destination)
         IN /\ Len(cmd[6]) = d + 3
            /\ cmd[6][1] = "docker://"
            /\ Templated(docker[i].destination, SubSeq(cmd[6], 2, d + 1))
            /\ cmd[6][d + 2] = ":"
            /\ cmd[6][d + 3] = docker[i].tags[t]
            /\ (docker[i].destination = <<"ghcr.io/", "{{GITHUB_REPOSITORY_OWNER}}", "/alpine">>
                  /\ EffectiveOwner = "acme")
               => SubSeq(cmd[6], 2, d + 1) = <<"ghcr.io/", "acme", "/alpine">>
    /\ (InFileJob /\ pushesJob > 0) =>
         LET d == Len(files[j].destination)
         IN /\ Len(cmd[4]) > d
            /\ Templated(files[j].destination, SubSeq(cmd[4], 1, d))
            /\ cmd[4][d + 1] = ":"

C15_Witness ==
    /\ pc = "file_failed"
    /\ pushesJob = 2
    /\ Len(files[j].destination) = 5
    /\ EffectiveOwner = "octocat"
    /\ Len(docker) = 1 /\ Len(docker[1].tags) = 2
    /\ Failed = {}

(* ---------------- C16 ---------------- *)
InJob == InImageJob \/ InFileJob

\* what C16 says of the job in hand: a delay follows a failed attempt exactly
\* when attempt < retry_attempts, whichever way the attempt failed; the
\* delays slept so far are one per earlier attempt; none follows a success;
\* and a job that ends without a success has slept retry_attempts - 1 times.
SleepUnlessFinal ==
    InJob =>
        /\ pc \in SleepPcs => (ended \in {"nonzero", "raised"} /\ attempt < retry_attempts)
        /\ (ended \in {"nonzero", "raised"} /\ attempt < retry_attempts) => pc \in SleepPcs
        /\ (ended \in {"nonzero", "raised"} /\ ~(attempt < retry_attempts))
             => pc \in ExhaustedPcs
        /\ (~Returned /\ pc \notin ExhaustedPcs) => sleeps = attempt - 1
        /\ (Returned /\ result) => sleeps = succeededAt - 1
        /\ (pc \in ExhaustedPcs \/ (Returned /\ ~result)) => sleeps = retry_attempts - 1

\* C16: a delay of retry_delay is slept after a failed attempt if and only
\* if attempt < retry_attempts, in both retry loops and for both kinds of
\* failure; a job that ends Exhausted has slept exactly retry_attempts - 1
\* times, no sleep follows the final attempt and none follows a success.
C16_SleepUnlessFinal == SleepUnlessFinal

\* the same for the runs whose retry_attempts is at least 1
C16_SleepUnlessFinal_FromOne == retry_attempts >= 1 => SleepUnlessFinal

(* ---------------- C17 ---------------- *)
\* the output of the last step entered so far, the fetched path if none was
LastOutput == IF applied = <<>> THEN download_path ELSE applied[Len(applied)].output

\* C17: the steps of a chain are entered in declared order, one after the
\* other, the first on the fetched path and each later one on the path the
\* step before it returned; the pipeline returns the output of the last step;
\* a step is entered only after every step before it has returned; and a step
\* of unregistered type raises when its turn comes, not earlier: the steps
\* before it have run and written their outputs, it produces nothing, and no
\* step after it is entered.
C17_PipelineInOrder ==
    InFileJob =>
        LET chain == files[j].transforms
            n == Len(applied)
        IN /\ n <= Len(chain)
           /\ \A k \in 1..n :
                /\ applied[k].type = chain[k].type
                /\ applied[k].input = IF k = 1 THEN download_path ELSE applied[k - 1].output
                /\ k < n => applied[k].result = "returned"
                /\ applied[k].result = "UnknownTransform" <=> applied[k].type \notin {"gunzip"}
                /\ applied[k].result = "UnknownTransform" =>
                     /\ k = n
                     /\ applied[k].output = <<>>
                     /\ pc \notin {"f_transform", "f_push"}
                     /\ ~result
                     /\ pc # "file_return" =>
                          \A m \in 1..(k - 1) : applied[m].output \in tmpfiles
                /\ applied[k].result # "UnknownTransform" =>
                     /\ Len(applied[k].output) = Max(1, Len(applied[k].input) - 1)
                     /\ \A m \in 1..Len(applied[k].output) :
                          applied[k].output[m] = applied[k].input[m]
           /\ pc = "f_transform" =>
                /\ n = step - 1
                /\ current_path = LastOutput
           /\ pc = "f_push" =>
                /\ n = Len(chain)
                /\ n > 0 => applied[n].result = "returned"
                /\ processed_path = LastOutput

C17_Witness ==
    /\ pc = "f_sleep"
    /\ Len(applied) = 2
    /\ applied[1].result = "returned"
    /\ applied[1].output = <<"db", "tar">>
    /\ applied[2].result = "UnknownTransform"
    /\ applied[2].input = <<"db", "tar">>

(* ---------------- C18 ---------------- *)
WaitPcs == {"img_wait", "login_wait", "f_push_wait"}

\* the image tags and file jobs that come before the one in hand
UnitsBefore ==
    IF InImageJob
    THEN Cardinality({k \in DOMAIN ImageUnits :
                        \/ ImageUnits[k][1] < i
                        \/ (ImageUnits[k][1] = i /\ ImageUnits[k][2] < t)})
    ELSE Len(ImageUnits) + j - 1

EveryUnitOnce ==
    /\ Len(outcomes) = Units(docker, files)
    /\ \A k \in DOMAIN outcomes :
         IF k <= Len(ImageUnits)
         THEN /\ outcomes[k].kind = "image"
              /\ <<outcomes[k].job, outcomes[k].tag>> = ImageUnits[k]
         ELSE /\ outcomes[k].kind = "file"
              /\ outcomes[k].job = k - Len(ImageUnits)

\* the attempts made in the run so far: one skopeo copy call per attempt of a
\* tag, one download per attempt of a file job
TotalAttempts == copyCalls + fetches

\* C20: when every call returns, every run terminates; a run that logged in
\* successfully, or that needed no login and passed the start-up checks, ends
\* with one outcome (Success or Exhausted) for every configured image tag and
\* file job, whatever failed on the way; and the attempts of a run never
\* exceed retry_attempts times the number of image tags and file jobs.
C20_TerminatesEveryUnitOnce ==
    /\ <>(pc = "done")
    /\ []((pc = "done" /\ logins = <<"exit_zero">>) => EveryUnitOnce)
    /\ []((pc = "done" /\ fatal = "") => EveryUnitOnce)
    /\ [](Len(outcomes) <= Units(docker, files))
    /\ [](TotalAttempts <= retry_attempts * Units(docker, files))
    /\ [](TotalAttempts <= retry_attempts * (Len(outcomes) + (IF InJob THEN 1 ELSE 0)))

C20_Witness ==
    /\ pc = "done"
    /\ logins = <<"exit_zero">>
    /\ registry_owner = "acme"
    /\ Len(outcomes) = 3
    /\ Cardinality(Failed) = 2
    /\ outcomes[3].ok
    /\ TotalAttempts = retry_attempts * 3
    /\ retry_attempts = 2

====
